---- MODULE Spec2Model ----
(***************************************************************************)
(* Model of scripts/analyze_xunit_percentage_changed.py: one run of main() *)
(* from the command line and the filesystem to the way the process ends.   *)
(*                                                                         *)
(* A duration is the double that float() makes of the time attribute of a  *)
(* test case, given here in hundredths of a second.  The arithmetic of     *)
(* lines 81 and 99-103 is IEEE 754 binary64 arithmetic, rounding to        *)
(* nearest with ties to even, on mantissas kept as sequences of limbs.     *)
(***************************************************************************)
EXTENDS Integers, Sequences, FiniteSets, TLC

\* ---------------------------------------------------------------- bounds
MaxTests == 2
MaxSuiteCases == 1
MaxSuites == 2
MaxFiles == 2

\* ------------------------------------------------------ program constants
DefaultThreshold == 10

\* --------------------------------------------- natural numbers of any size
\* little-endian sequences of limbs below LimbBase, no leading zero limb
LimbBase == 2^15

Limb(x, i) == IF i <= Len(x) THEN x[i] ELSE 0

RECURSIVE BNorm(_)
BNorm(x) ==
    IF x = <<>> THEN <<>>
    ELSE IF x[Len(x)] = 0 THEN BNorm(SubSeq(x, 1, Len(x) - 1))
    ELSE x

RECURSIVE BAddFrom(_, _, _, _)
BAddFrom(x, y, i, carry) ==
    IF i > Len(x) /\ i > Len(y)
    THEN IF carry = 0 THEN <<>> ELSE <<carry>>
    ELSE LET s == Limb(x, i) + Limb(y, i) + carry
         IN <<s % LimbBase>> \o BAddFrom(x, y, i + 1, s \div LimbBase)

BAdd(x, y) == BAddFrom(x, y, 1, 0)

\* x - y for x >= y
RECURSIVE BSubFrom(_, _, _, _)
BSubFrom(x, y, i, borrow) ==
    IF i > Len(x) THEN <<>>
    ELSE LET s == Limb(x, i) - Limb(y, i) - borrow
         IN IF s < 0
            THEN <<s + LimbBase>> \o BSubFrom(x, y, i + 1, 1)
            ELSE <<s>> \o BSubFrom(x, y, i + 1, 0)

BSub(x, y) == BNorm(BSubFrom(x, y, 1, 0))

RECURSIVE BLessFrom(_, _, _)
BLessFrom(x, y, i) ==
    IF i = 0 THEN FALSE
    ELSE IF x[i] # y[i] THEN x[i] < y[i]
    ELSE BLessFrom(x, y, i - 1)

BLess(x, y) ==
    IF Len(x) # Len(y) THEN Len(x) < Len(y) ELSE BLessFrom(x, y, Len(x))

RECURSIVE BMulSmallFrom(_, _, _, _)
BMulSmallFrom(x, c, i, carry) ==
    IF i > Len(x)
    THEN IF carry = 0 THEN <<>> ELSE <<carry>>
    ELSE LET s == x[i] * c + carry
         IN <<s % LimbBase>> \o BMulSmallFrom(x, c, i + 1, s \div LimbBase)

BMulSmall(x, c) == IF c = 0 THEN <<>> ELSE BMulSmallFrom(x, c, 1, 0)

\* x * LimbBase^k
ShiftLimbs(x, k) == IF x = <<>> THEN <<>> ELSE [i \in 1..k |-> 0] \o x

RECURSIVE BMulFrom(_, _, _)
BMulFrom(x, y, i) ==
    IF i > Len(y) THEN <<>>
    ELSE BAdd(ShiftLimbs(BMulSmall(x, y[i]), i - 1), BMulFrom(x, y, i + 1))

BMul(x, y) == BMulFrom(x, y, 1)

BDouble(x) == BAdd(x, x)
BOdd(x) == x # <<>> /\ x[1] % 2 = 1
BHalf(x) ==
    BNorm([i \in 1..Len(x) |->
              (x[i] \div 2) + (Limb(x, i + 1) % 2) * (LimbBase \div 2)])

LimbBits == 15

\* x * 2^n
BShl(x, n) == BMulSmall(ShiftLimbs(x, n \div LimbBits), 2^(n % LimbBits))

\* x \div 2^n
BShr(x, n) ==
    LET k == n \div LimbBits
        r == n % LimbBits
        y == SubSeq(x, k + 1, Len(x))
    IN BNorm([i \in 1..Len(y) |->
                 (y[i] \div 2^r) + (Limb(y, i + 1) % 2^r) * 2^(LimbBits - r)])

\* number of binary digits of x
BitLen(x) ==
    IF x = <<>> THEN 0
    ELSE (Len(x) - 1) * LimbBits
         + (CHOOSE k \in 1..LimbBits : 2^(k - 1) <= x[Len(x)] /\ x[Len(x)] < 2^k)

BOne == <<1>>

\* ------------------------------------------------- IEEE 754 binary64
\* a finite double is (-1)^neg * m * 2^e with 2^52 <= m < 2^53, or zero
Precision == 53
P52 == BShl(BOne, Precision - 1)
P53 == BShl(BOne, Precision)

Dyadic(neg, m, e) == [neg |-> neg, m |-> m, e |-> e]
FZero == Dyadic(FALSE, <<>>, 0)
IsZero(a) == a.m = <<>>
Neg(a) == IF IsZero(a) THEN a ELSE [a EXCEPT !.neg = ~a.neg]
DAbs(a) == [a EXCEPT !.neg = FALSE]

\* exact sum of two dyadic numbers
DAdd(a, b) ==
    IF IsZero(a) THEN b
    ELSE IF IsZero(b) THEN a
    ELSE LET e == IF a.e < b.e THEN a.e ELSE b.e
             ma == BShl(a.m, a.e - e)
             mb == BShl(b.m, b.e - e)
         IN IF a.neg = b.neg THEN Dyadic(a.neg, BAdd(ma, mb), e)
            ELSE IF ma = mb THEN FZero
            ELSE IF BLess(ma, mb) THEN Dyadic(b.neg, BSub(mb, ma), e)
            ELSE Dyadic(a.neg, BSub(ma, mb), e)

DSub(a, b) == DAdd(a, Neg(b))

\* exact product of two dyadic numbers
DMul(a, b) ==
    IF IsZero(a) \/ IsZero(b) THEN FZero
    ELSE Dyadic(a.neg # b.neg, BMul(a.m, b.m), a.e + b.e)

DLess(a, b) == LET d == DSub(a, b) IN ~IsZero(d) /\ d.neg
DLeq(a, b) == ~DLess(b, a)

\* m * 2^e (with one more set bit below when sticky) rounded to nearest,
\* ties to even
Round(neg, m, e, sticky) ==
    LET len == BitLen(m) IN
    IF len = 0 THEN FZero
    ELSE IF len <= Precision THEN Dyadic(neg, BShl(m, Precision - len), e - (Precision - len))
    ELSE LET sh == len - Precision
             kept == BShr(m, sh)
             guard == BOdd(BShr(m, sh - 1))
             below == sticky \/ BShl(BShr(m, sh - 1), sh - 1) # m
             up == guard /\ (below \/ BOdd(kept))
             r == IF up THEN BAdd(kept, BOne) ELSE kept
         IN IF r = P53 THEN Dyadic(neg, P52, e + sh + 1) ELSE Dyadic(neg, r, e + sh)

RoundD(a) == Round(a.neg, a.m, a.e, FALSE)

RECURSIVE BFromInt(_)
BFromInt(n) == IF n = 0 THEN <<>> ELSE <<n % LimbBase>> \o BFromInt(n \div LimbBase)

\* float(n)
FromInt(n) == IF n < 0 THEN Round(TRUE, BFromInt(-n), 0, FALSE)
              ELSE Round(FALSE, BFromInt(n), 0, FALSE)

FAdd(a, b) == RoundD(DAdd(a, b))
FSub(a, b) == RoundD(DSub(a, b))
FMul(a, b) == RoundD(DMul(a, b))

\* n more quotient bits of r / d, for st = <<quotient so far, r>>, r < 2 * d
RECURSIVE DivStep(_, _, _)
DivStep(st, d, n) ==
    IF n = 0 THEN st
    ELSE IF BLess(st[2], d)
         THEN DivStep(<<BDouble(st[1]), BDouble(st[2])>>, d, n - 1)
         ELSE DivStep(<<BAdd(BDouble(st[1]), BOne), BDouble(BSub(st[2], d))>>, d, n - 1)

HalfDivBits == 28

\* a / b for b # 0
FDiv(a, b) ==
    IF IsZero(a) THEN FZero
    ELSE LET half == DivStep(<<<<>>, a.m>>, b.m, HalfDivBits)
             qr == DivStep(half, b.m, HalfDivBits)
         IN Round(a.neg # b.neg, qr[1], a.e - b.e - (2 * HalfDivBits - 1), qr[2] # <<>>)

FGreater(a, b) == DLess(b, a)

\* the double of the decimal h / 100
ParseTime(h) == FDiv(FromInt(h), FromInt(100))

\* ------------------------------------------------------- Python values
None == [None |-> TRUE]

\* a dict whose insertion order matters: its keys in insertion order and
\* its values by key
EmptyDict == [order |-> <<>>, at |-> <<>>]
keys(d) == DOMAIN d.at
Item(k, v) == [order |-> <<k>>, at |-> k :> v]

\* tests.update(other), tests[k] = v: a key already present keeps its place
Update(tests, other) ==
    [order |-> tests.order \o SelectSeq(other.order, LAMBDA k : k \notin keys(tests)),
     at |-> other.at @@ tests.at]

\* a dict whose insertion order is the iteration order of a set and is
\* never looked at: its values by key
NoItems == <<>>

\* sum(d.values()): left to right from the int 0
RECURSIVE SumFrom(_, _, _)
SumFrom(d, i, acc) ==
    IF i > Len(d.order) THEN acc
    ELSE SumFrom(d, i + 1, FAdd(acc, d.at[d.order[i]]))

sum(d) == SumFrom(d, 1, FZero)

\* the fraction, not multiplied by 100
FractionChanged(b, c) == FDiv(FSub(c, b), b)

\* ((c - b) / b) * 100, b # 0
PercentageChanged(b, c) == FMul(FDiv(FSub(c, b), b), FromInt(100))

IntThreshold(n) == [type |-> "int", value |-> n]
StrThreshold(s) == [type |-> "str", value |-> s]

\* v > threshold is defined for a number against a number only
Comparable(threshold) == threshold.type = "int"
GreaterThan(v, threshold) == FGreater(v, FromInt(threshold.value))

\* ---------------------------------------------------------- report trees
mkTestCase(c, n, t) == [tag |-> "testcase", classname |-> c, name |-> n, time |-> t]
mkTestSuite(n, items) == [tag |-> "testsuite", name |-> n, items |-> items]
mkJUnitXml(n, items) == [tag |-> "testsuites", name |-> n, items |-> items]
Garbage == [tag |-> "garbage"]

IsTestSuite(item) == item.tag = "testsuite"

SeqsUpTo(S, n) == UNION {[1..m -> S] : m \in 0..n}

\* ------------------------------------------------------------ filesystem
Missing == [kind |-> "missing"]
Other == [kind |-> "other"]
File(content) == [kind |-> "file", content |-> content]
Dir(files) == [kind |-> "dir", files |-> files]

BasePath == "base"
ComparePath == "compare_to"
Paths == {BasePath, ComparePath}

\* file names, character by character
AXml == <<"a", ".", "x", "m", "l">>
ResultsXml == <<"r", "e", "s", "u", "l", "t", "s", "x", "m", "l">>
NotesTxt == <<"n", "o", "t", "e", "s", ".", "t", "x", "t">>
FileNames == {AXml, ResultsXml, NotesTxt}

EndsWith(s, suffix) ==
    /\ Len(s) >= Len(suffix)
    /\ SubSeq(s, Len(s) - Len(suffix) + 1, Len(s)) = suffix

\* --------------------------------------------------------------- inputs
\* time attributes in hundredths of a second: 0.1 -> 0.11 and 0.9 -> 0.99
\* grow by just under 10 percent in doubles, 10.0 -> 11.0 by exactly 10
DurationsOf(i) ==
    CASE i = 1 -> {0, 10, 11, 12}
      [] i = 2 -> {0, 90, 99}
      [] OTHER -> {1000, 1100}
CliThresholds == {10, 20}

\* a report file of one suite S under the root R: test i is present, with
\* time attribute dur[i], for every i in DOMAIN dur
MainReport(dur) ==
    LET all == [i \in 1..MaxTests |->
                    IF i \in DOMAIN dur
                    THEN mkTestCase("C", "t" \o ToString(i), ParseTime(dur[i]))
                    ELSE Garbage]
    IN mkJUnitXml("R", <<mkTestSuite("S", SelectSeq(all, LAMBDA c : c.tag = "testcase"))>>)

MainDurations ==
    UNION {{dur \in [present -> UNION {DurationsOf(i) : i \in present}] :
                \A i \in present : dur[i] \in DurationsOf(i)} :
           present \in SUBSET (1..MaxTests)}

MainEntries == {Missing} \cup {File(MainReport(dur)) : dur \in MainDurations}

MainFs == [Paths -> MainEntries]

LoadCases ==
    {mkTestCase("C", "t1", ParseTime(10)), mkTestCase("C", "t1", ParseTime(12)),
     mkTestCase("C", "t2", ParseTime(10))}
LoadSuites ==
    {mkTestSuite(n, cs) : n \in {"S", "T"}, cs \in SeqsUpTo(LoadCases, MaxSuiteCases)}
LoadReports ==
    LoadSuites \cup {mkJUnitXml("R", ss) : ss \in SeqsUpTo(LoadSuites, MaxSuites)}

DirReports ==
    { mkJUnitXml("R", <<mkTestSuite("S", <<mkTestCase("C", "t1", ParseTime(10))>>)>>),
      mkTestSuite("S", <<mkTestCase("C", "t1", ParseTime(12))>>),
      mkJUnitXml("R", <<mkTestSuite("T", <<mkTestCase("C", "t2", ParseTime(10))>>)>>),
      Garbage }
DirFiles ==
    {[dir |-> d, name |-> n, content |-> c] :
        d \in {"", "sub"}, n \in FileNames, c \in DirReports}

LoadEntries ==
    {Other}
    \cup {File(r) : r \in LoadReports \cup {Garbage}}
    \cup {Dir(fs) : fs \in SeqsUpTo(DirFiles, MaxFiles)}

FixedCompare ==
    File(mkJUnitXml("R", <<mkTestSuite("S", <<mkTestCase("C", "t1", ParseTime(10))>>)>>))

LoadFs == {[p \in Paths |-> IF p = BasePath THEN e ELSE FixedCompare] : e \in LoadEntries}

\* no option, the short option and the long option
Argvs ==
    { <<BasePath, ComparePath>>,
      <<BasePath, ComparePath, "-t", ToString(DefaultThreshold)>>,
      <<BasePath, ComparePath, "--threshold", ToString(2 * DefaultThreshold)>> }

\* --------------------------------------------------------------- results
Raise(outcome, message, path, payload) ==
    [outcome |-> outcome, message |-> message, path |-> path, payload |-> payload]
Running == Raise("running", "", "", NoItems)
Success == Raise("success", "", "", NoItems)

PerTestMessage == "Test time increase threshold exceeded for the following testcases:"
TotalMessage == "Total test time increase threshold exceeded, added tests (in seconds):"

\* ------------------------------------------------------------ parse_args
parse_args(av) ==
    LET flagAt == {i \in 1..(Len(av) - 1) : av[i] \in {"-t", "--threshold"}}
    IN [base |-> av[1],
        compare_to |-> av[2],
        threshold |-> IF flagAt = {}
                      THEN IntThreshold(DefaultThreshold)
                      ELSE StrThreshold(av[(CHOOSE i \in flagAt : TRUE) + 1])]

\* --------------------------------------------------- parse_junit_reports
\* no existence check
existsAlways(entry) == TRUE

exists(entry) == entry.kind # "missing"
isfile(entry) == entry.kind = "file"
isdir(entry) == entry.kind = "dir"

\* JUnitXml.fromfile succeeds on a well-formed report
Parses(content) == content.tag # "garbage"

\* [f for f in files if f.endswith("xml")], in walk order
XmlFiles(files) == SelectSeq(files, LAMBDA f : EndsWith(f.name, <<"x", "m", "l">>))

\* ret_xml += other: a suite is added, a collection adds its suites
Merge(xml, other) ==
    IF IsTestSuite(other)
    THEN [xml EXCEPT !.items = Append(@, other)]
    ELSE [xml EXCEPT !.items = @ \o other.items]

JoinedPath(path, f) == [path |-> path, dir |-> f.dir, name |-> f.name]
FilePath(path) == [path |-> path, dir |-> "", name |-> <<>>]

\* ------------------------------------------------- convert_junit_to_dict
\* the suite name left out of the key
TestKeyNoSuite(xml, item) == item.classname \o "." \o item.name

TestKey(xml, item) == xml.name \o "." \o item.classname \o "." \o item.name

RECURSIVE convert_junit_to_dict(_)
RECURSIVE ConvertFrom(_, _, _)
ConvertFrom(xml, i, tests) ==
    IF i > Len(xml.items) THEN tests
    ELSE LET item == xml.items[i]
         IN ConvertFrom(xml, i + 1,
                IF IsTestSuite(item)
                THEN Update(tests, convert_junit_to_dict(item))
                ELSE Update(tests, Item(TestKey(xml, item), item.time)))

convert_junit_to_dict(xml) == ConvertFrom(xml, 1, EmptyDict)

\* ----------------------------------------------------- calculate_changed
calculate_changed(b, c) ==
    LET both == keys(b) \cap keys(c)
    IN [key \in both |->
            IF IsZero(b.at[key]) THEN FZero
            ELSE PercentageChanged(b.at[key], c.at[key])]

\* ------------------------------------------------------------------ main
\* {k: v for k, v in changed.items() if v > threshold}
OverThreshold(ch, threshold) ==
    LET over == {k \in DOMAIN ch : GreaterThan(ch[k], threshold)}
    IN [k \in over |-> ch[k]]

\* lines 90-96: the error raised by the per-test check, None if it passes
PerTestResult(ch, threshold) ==
    IF DOMAIN ch # {} /\ ~Comparable(threshold)
    THEN Raise("TypeError", "", "", NoItems)
    ELSE LET over == OverThreshold(ch, threshold)
         IN IF DOMAIN over # {}
            THEN Raise("ThresholdExceeded", PerTestMessage, "", over)
            ELSE None

Additive(b, c) == keys(c) \ keys(b)

\* the operands of the difference swapped
TotalPercentageChangedSwapped(total_time_base, total_time_compare) ==
    FMul(FDiv(FSub(total_time_base, total_time_compare), total_time_base),
         FromInt(100))

\* lines 101-103, total_time_base # 0
TotalPercentageChanged(total_time_base, total_time_compare) ==
    FMul(FDiv(FSub(total_time_compare, total_time_base), total_time_base),
         FromInt(100))

\* lines 98-109: the way the aggregate check ends
AggregateResult(b, c, threshold) ==
    LET additive == Additive(b, c)
        total_time_base == sum(b)
        total_time_compare == sum(c)
    IN IF IsZero(total_time_base)
       THEN Raise("ZeroDivisionError", "", "", NoItems)
       ELSE LET total_percentage_changed ==
                    TotalPercentageChanged(total_time_base, total_time_compare)
            IN IF ~Comparable(threshold)
               THEN Raise("TypeError", "", "", NoItems)
               ELSE IF GreaterThan(total_percentage_changed, threshold)
                    THEN Raise("ThresholdExceeded", TotalMessage, "",
                               [k \in additive |-> c.at[k]])
                    ELSE Success

\* ----------------------------------------------------------------- state
VARIABLES
    argv,            \* sys.argv[1:]
    fs,              \* what is at each path
    pc,              \* position in main / parse_junit_reports
    caller,          \* which call of parse_junit_reports is active
    path_to_reports, \* its argument
    options,         \* result of parse_args
    examined,        \* paths passed to os.path.exists, in order
    parsed,          \* paths passed to JUnitXml.fromfile, in order
    todo,            \* files of the walk still to be parsed
    ret_xml,         \* accumulated report of the active load
    base, compare_to, changed, over_threshold,
    totals,          \* additive, total_time_base, total_time_compare
    result,          \* how the run ended
    trace            \* steps executed so far

vars == <<argv, fs, pc, caller, path_to_reports, options, examined, parsed,
          todo, ret_xml, base, compare_to, changed, over_threshold, totals,
          result, trace>>

Init ==
    /\ \/ argv \in Argvs /\ fs \in MainFs
       \/ argv = <<BasePath, ComparePath>> /\ fs \in LoadFs
    /\ pc = "parse_args"
    /\ caller = "none"
    /\ path_to_reports = ""
    /\ options = None
    /\ examined = <<>>
    /\ parsed = <<>>
    /\ todo = <<>>
    /\ ret_xml = None
    /\ base = None
    /\ compare_to = None
    /\ changed = None
    /\ over_threshold = None
    /\ totals = None
    /\ result = Running
    /\ trace = <<>>

Step(name) == trace' = Append(trace, name)

Finish(r) == result' = r /\ pc' = "done"

\* line 86
ParseArgs ==
    /\ pc = "parse_args"
    /\ options' = parse_args(argv)
    /\ caller' = "base"
    /\ path_to_reports' = options'.base
    /\ pc' = "exists"
    /\ Step("parse_args")
    /\ UNCHANGED <<argv, fs, examined, parsed, todo, ret_xml, base, compare_to,
                   changed, over_threshold, totals, result>>

\* lines 49-50
CheckExists ==
    /\ pc = "exists"
    /\ examined' = Append(examined, path_to_reports)
    /\ IF exists(fs[path_to_reports])
       THEN pc' = "dispatch" /\ UNCHANGED result
       ELSE Finish(Raise("FileNotFoundError", "", path_to_reports, NoItems))
    /\ Step("exists")
    /\ UNCHANGED <<argv, fs, caller, path_to_reports, options, parsed, todo,
                   ret_xml, base, compare_to, changed, over_threshold, totals>>

\* lines 52-53
LoadFile ==
    /\ pc = "dispatch"
    /\ isfile(fs[path_to_reports])
    /\ parsed' = Append(parsed, FilePath(path_to_reports))
    /\ IF Parses(fs[path_to_reports].content)
       THEN /\ ret_xml' = fs[path_to_reports].content
            /\ pc' = "convert"
            /\ UNCHANGED result
       ELSE /\ Finish(Raise("ParseError", "", "", NoItems))
            /\ UNCHANGED ret_xml
    /\ Step("fromfile")
    /\ UNCHANGED <<argv, fs, caller, path_to_reports, options, examined, todo,
                   base, compare_to, changed, over_threshold, totals>>

\* lines 54-57
LoadDir ==
    /\ pc = "dispatch"
    /\ ~isfile(fs[path_to_reports])
    /\ isdir(fs[path_to_reports])
    /\ ret_xml' = mkJUnitXml("None", <<>>)
    /\ todo' = XmlFiles(fs[path_to_reports].files)
    /\ pc' = IF todo' = <<>> THEN "convert" ELSE "walk"
    /\ Step("walk")
    /\ UNCHANGED <<argv, fs, caller, path_to_reports, options, examined, parsed,
                   base, compare_to, changed, over_threshold, totals, result>>

\* line 58
WalkStep ==
    /\ pc = "walk"
    /\ LET f == Head(todo)
       IN /\ parsed' = Append(parsed, JoinedPath(path_to_reports, f))
          /\ IF Parses(f.content)
             THEN /\ ret_xml' = Merge(ret_xml, f.content)
                  /\ todo' = Tail(todo)
                  /\ pc' = IF todo' = <<>> THEN "convert" ELSE "walk"
                  /\ UNCHANGED result
             ELSE /\ Finish(Raise("ParseError", "", "", NoItems))
                  /\ UNCHANGED <<ret_xml, todo>>
    /\ Step("fromfile")
    /\ UNCHANGED <<argv, fs, caller, path_to_reports, options, examined,
                   base, compare_to, changed, over_threshold, totals>>

\* line 59 with ret_xml never assigned: the path is neither file nor directory
LoadOther ==
    /\ pc = "dispatch"
    /\ ~isfile(fs[path_to_reports])
    /\ ~isdir(fs[path_to_reports])
    /\ Finish(Raise("UnboundLocalError", "", "", NoItems))
    /\ Step("return")
    /\ UNCHANGED <<argv, fs, caller, path_to_reports, options, examined, parsed,
                   todo, ret_xml, base, compare_to, changed, over_threshold,
                   totals>>

\* line 59, returning to line 87 or line 88
Convert ==
    /\ pc = "convert"
    /\ LET tests == convert_junit_to_dict(ret_xml)
       IN IF caller = "base"
          THEN /\ base' = tests
               /\ caller' = "compare_to"
               /\ path_to_reports' = options.compare_to
               /\ pc' = "exists"
               /\ UNCHANGED compare_to
          ELSE /\ compare_to' = tests
               /\ caller' = "none"
               /\ path_to_reports' = ""
               /\ pc' = "calculate"
               /\ UNCHANGED base
    /\ ret_xml' = None
    /\ todo' = <<>>
    /\ Step("convert")
    /\ UNCHANGED <<argv, fs, options, examined, parsed, changed, over_threshold,
                   totals, result>>

\* line 89
Calculate ==
    /\ pc = "calculate"
    /\ changed' = calculate_changed(base, compare_to)
    /\ pc' = "per_test"
    /\ Step("calculate")
    /\ UNCHANGED <<argv, fs, caller, path_to_reports, options, examined, parsed,
                   todo, ret_xml, base, compare_to, over_threshold, totals,
                   result>>

\* lines 90-96
PerTest ==
    /\ pc = "per_test"
    /\ LET r == PerTestResult(changed, options.threshold)
       IN /\ over_threshold' =
                IF r = None THEN NoItems
                ELSE IF r.outcome = "ThresholdExceeded" THEN r.payload
                ELSE None
          /\ IF r = None
             THEN pc' = "aggregate" /\ UNCHANGED result
             ELSE Finish(r)
    /\ Step("per_test")
    /\ UNCHANGED <<argv, fs, caller, path_to_reports, options, examined, parsed,
                   todo, ret_xml, base, compare_to, changed, totals>>

\* lines 98-109
Aggregate ==
    /\ pc = "aggregate"
    /\ totals' = [additive |-> Additive(base, compare_to),
                  total_time_base |-> sum(base),
                  total_time_compare |-> sum(compare_to)]
    /\ Finish(AggregateResult(base, compare_to, options.threshold))
    /\ Step("aggregate")
    /\ UNCHANGED <<argv, fs, caller, path_to_reports, options, examined, parsed,
                   todo, ret_xml, base, compare_to, changed, over_threshold>>

Next ==
    \/ ParseArgs
    \/ CheckExists
    \/ LoadFile
    \/ LoadDir
    \/ WalkStep
    \/ LoadOther
    \/ Convert
    \/ Calculate
    \/ PerTest
    \/ Aggregate

Spec == Init /\ [][Next]_vars

\* ======================================================== properties
\* the number the command line asks for: N of "-t N", 10 without the flag
ThresholdNumber ==
    IF Len(argv) = 2 THEN DefaultThreshold
    ELSE CHOOSE n \in CliThresholds : ToString(n) = argv[4]

\* keys of the delta set whose value is strictly greater than n
Offending(n) == {k \in DOMAIN changed : FGreater(changed[k], FromInt(n))}

Compared == changed # None
Ended == pc = "done"

\* a * 2^k
Scale(a, k) == IF IsZero(a) THEN a ELSE [a EXCEPT !.e = @ + k]

\* C1: calculate_changed returns a mapping over exactly the keys shared by
\* base and compare_to; a key whose base duration is 0 maps to 0, every
\* other key k maps to (compare_to[k] - base[k]) / base[k] * 100 within
\* floating-point tolerance: the value d differs from the exact quotient by
\* at most 2^(2 - Precision) of it, |d * b - (c - b) * 100| being compared
\* with |(c - b) * 100| * 2^(2 - Precision) without rounding.
C1_DeltaSet ==
    Compared =>
        /\ DOMAIN changed = keys(base) \cap keys(compare_to)
        /\ \A k \in DOMAIN changed :
              LET b == base.at[k]
                  c == compare_to.at[k]
                  exact == DMul(DSub(c, b), FromInt(100))
              IN IF IsZero(b)
                 THEN IsZero(changed[k])
                 ELSE DLeq(DAbs(DSub(DMul(changed[k], b), exact)),
                           Scale(DAbs(exact), 2 - Precision))

C1_Witness ==
    /\ Compared
    /\ \E k \in DOMAIN changed : IsZero(base.at[k]) /\ ~IsZero(compare_to.at[k])
    /\ \E k \in DOMAIN changed :
          ~IsZero(base.at[k]) /\ FGreater(compare_to.at[k], base.at[k])

\* C2: the run fails with the per-test ThresholdExceeded exactly when some
\* delta is strictly greater than the threshold number, and the payload is
\* then exactly the offending keys with their deltas.
C2_PerTestCheck ==
    (Compared /\ pc \in {"aggregate", "done"}) =>
        LET offending == Offending(ThresholdNumber)
        IN /\ (result.outcome = "ThresholdExceeded" /\ result.message = PerTestMessage)
                  <=> offending # {}
           /\ offending # {} => result.payload = [k \in offending |-> changed[k]]

\* C3: with no offending delta and a non-zero base total, the run fails with
\* the aggregate ThresholdExceeded, carrying the additive tests with their
\* compare durations, exactly when the total grew by more than the
\* threshold number percent; otherwise it returns normally.
C3_AggregateCheck ==
    (Ended /\ Compared /\ Offending(ThresholdNumber) = {} /\ ~IsZero(sum(base))) =>
        IF FGreater(FMul(FDiv(FSub(sum(compare_to), sum(base)), sum(base)),
                         FromInt(100)),
                    FromInt(ThresholdNumber))
        THEN /\ result.outcome = "ThresholdExceeded"
             /\ result.message = TotalMessage
             /\ result.payload =
                   [k \in keys(compare_to) \ keys(base) |-> compare_to.at[k]]
        ELSE result.outcome = "success"

\* C4: a run in which some delta exceeds the threshold number ends with the
\* per-test ThresholdExceeded and never evaluates the aggregate step.
C4_Sequential ==
    (Ended /\ Compared /\ Offending(ThresholdNumber) # {}) =>
        /\ result.outcome = "ThresholdExceeded"
        /\ result.message = PerTestMessage
        /\ totals = None
        /\ \A i \in 1..Len(trace) : trace[i] # "aggregate"

\* C5: a run with "-t N" ends as the checks with the number N as threshold
\* end, the way the default 10 behaves when the flag is omitted.
C5_CliThreshold ==
    (Ended /\ Compared) =>
        LET threshold == IntThreshold(ThresholdNumber)
            r == PerTestResult(calculate_changed(base, compare_to), threshold)
        IN result = IF r # None THEN r
                    ELSE AggregateResult(base, compare_to, threshold)

\* the leaf test cases of a report tree, each with the name of the
\* container that holds it
RECURSIVE Leaves(_)
Leaves(xml) ==
    UNION {IF IsTestSuite(xml.items[i])
           THEN Leaves(xml.items[i])
           ELSE {[parent |-> xml.name, case |-> xml.items[i]]} :
           i \in 1..Len(xml.items)}

KeyOf(prefix, case) == prefix \o "." \o case.classname \o "." \o case.name

BaseFromFile == base # None /\ isfile(fs[BasePath])
BaseTree == fs[BasePath].content

\* C6 as stated: every leaf of a flattened report is keyed by the name of
\* the root container, whatever suites lie between the root and the leaf.
C6_RootPrefix ==
    BaseFromFile =>
        keys(base) = {KeyOf(BaseTree.name, l.case) : l \in Leaves(BaseTree)}

\* C6 amended: every leaf of a flattened report is keyed by the name of the
\* suite that holds it; below a root that holds suites, no key starts with
\* the root's name.
C6_ParentPrefix ==
    BaseFromFile =>
        /\ keys(base) = {KeyOf(l.parent, l.case) : l \in Leaves(BaseTree)}
        /\ ~IsTestSuite(BaseTree) =>
              \A l \in Leaves(BaseTree) : KeyOf(BaseTree.name, l.case) \notin keys(base)

C6_Witness ==
    /\ BaseFromFile
    /\ ~IsTestSuite(BaseTree)
    /\ \E l1, l2 \in Leaves(BaseTree) :
          /\ l1.parent # l2.parent
          /\ l1.case.name = l2.case.name
          /\ base.at[KeyOf(l1.parent, l1.case)] # base.at[KeyOf(l2.parent, l2.case)]

DotXml == <<".", "x", "m", "l">>

\* C7: of a directory, exactly the files whose name ends in ".xml" are
\* parsed; no other file is ever parsed.
C7_OnlyDotXml ==
    /\ \A i \in 1..Len(parsed) :
          parsed[i].name # <<>> => EndsWith(parsed[i].name, DotXml)
    /\ (base # None /\ isdir(fs[BasePath])) =>
          LET wanted == SelectSeq(fs[BasePath].files,
                                  LAMBDA f : EndsWith(f.name, DotXml))
          IN SelectSeq(parsed, LAMBDA q : q.path = BasePath)
                = [i \in 1..Len(wanted) |-> JoinedPath(BasePath, wanted[i])]

\* C8: with no offending delta and a base total of 0, the run ends with the
\* division-by-zero error.
C8_ZeroBaseTotal ==
    (Ended /\ Compared /\ Offending(ThresholdNumber) = {} /\ IsZero(sum(base))) =>
        result.outcome = "ZeroDivisionError"

Range(s) == {s[i] : i \in 1..Len(s)}

\* C9: a path that does not exist ends the run with FileNotFoundError for
\* that path as soon as the loader has examined it and before anything is
\* parsed from it; base is loaded first, so a missing base path is reported
\* without the compare path being examined; with a path missing, no delta
\* and no threshold check is ever computed.
C9_NotFound ==
    /\ \A p \in Range(examined) :
          fs[p] = Missing =>
              /\ Ended
              /\ result.outcome = "FileNotFoundError"
              /\ result.path = p
              /\ \A i \in 1..Len(parsed) : parsed[i].path # p
    /\ result.outcome = "FileNotFoundError" =>
          fs[result.path] = Missing /\ examined[Len(examined)] = result.path
    /\ (Ended /\ fs[BasePath] = Missing) =>
          /\ result.outcome = "FileNotFoundError"
          /\ result.path = BasePath
          /\ examined = <<BasePath>>
          /\ parsed = <<>>
    /\ (\E p \in Paths : fs[p] = Missing) =>
          /\ changed = None
          /\ over_threshold = None
          /\ totals = None
          /\ Range(trace) \cap {"calculate", "per_test", "aggregate"} = {}

C9_Witness ==
    /\ Ended
    /\ fs[BasePath] = Missing
    /\ fs[ComparePath] = Missing
    /\ result = Raise("FileNotFoundError", "", BasePath, NoItems)

AggregateRaised ==
    result.outcome = "ThresholdExceeded" /\ result.message = TotalMessage

HasAdditive == keys(compare_to) \ keys(base) # {}

HasZeroBase ==
    \E k \in keys(base) \cap keys(compare_to) :
        IsZero(base.at[k]) /\ ~IsZero(compare_to.at[k])

\* C10 as stated: the aggregate ThresholdExceeded is raised only if
\* compare_to has an additive test or some shared test has base duration 0
\* and a positive compare duration.
C10_AggregateCause == AggregateRaised => (HasAdditive \/ HasZeroBase)

\* C10 amended: the aggregate ThresholdExceeded is raised only if compare_to
\* has an additive test, or some shared test has base duration 0 and a
\* positive compare duration, or some shared test has a compare duration
\* greater than its base duration.
C10_AggregateCauseRounded ==
    AggregateRaised =>
        \/ HasAdditive
        \/ HasZeroBase
        \/ \E k \in keys(base) \cap keys(compare_to) :
              FGreater(compare_to.at[k], base.at[k])

\* the aggregate error with neither cause of the original claim: every
\* shared test grew by less than the threshold, the rounded totals by more
C10_Witness ==
    /\ AggregateRaised
    /\ ~HasAdditive
    /\ ~HasZeroBase
    /\ keys(base) = keys(compare_to)
    /\ \A k \in DOMAIN changed : ~FGreater(changed[k], FromInt(DefaultThreshold))

====
